---- MODULE Spec2Model ----
(***************************************************************************)
(* A model of scripts/refresh.py: the section builder (build_sections with *)
(* score_item and dedupe_key), the photo picker (build_photos with         *)
(* extract_image_url), the satire picker (build_satire) and the joke of    *)
(* the day (build_joke).  Each routine is a state machine of its own and   *)
(* has its own specification; the variables of the other routines stay at  *)
(* their idle values.                                                      *)
(*                                                                         *)
(* Texts.  The code tests `kw in text` on the lowercased title and         *)
(* summary.  The model's texts are a handful of ASCII strings; Lower gives *)
(* the lowercased string and Phrases the phrases of the four keyword lists *)
(* that occur in it (computed by running the code's test on each string).  *)
(* The keyword lists carry the ASCII spellings of the source's lists: the  *)
(* accented spellings never occur in an ASCII text.                        *)
(***************************************************************************)
EXTENDS Integers, Sequences, FiniteSets, TLC

\* ------------------------------------------------------------------------
\* Bounds of the model
\* ------------------------------------------------------------------------

\* entries in one fetched feed
MaxEntries == 2

\* ------------------------------------------------------------------------
\* Program constants
\* ------------------------------------------------------------------------

\* feed.entries[:60]
EntriesCap == 60

\* max_items_map.get(section_id, 20) and s.get("max_items", 20)
DefaultMaxItems == 20

\* thresholds.get(section_id, 0)
DefaultThreshold == 0

\* the value score_item returns for a rejected text
HardReject == -999

\* def score_item(title, summary, kind): the number of parameters
score_item_params == 3

\* a configuration key that is not present
Absent == -1

\* ------------------------------------------------------------------------
\* Keyword lists and texts
\* ------------------------------------------------------------------------

NEGATIVE_KEYWORDS ==
  {"razboi", "invaz", "atac", "bombard", "rachet", "dron", "front", "armata",
   "solda", "nato", "ucrain", "rusi", "rusia", "moscov", "kiev", "zelensk",
   "putin", "israel", "gaza", "palestin", "hamas", "iran", "sir", "yemen",
   "crim", "omor", "ucis", "injungh", "impusc", "violent", "agresi", "viol",
   "rapit", "talhar", "jaf", "furt", "drog", "arest", "retinut", "perchezi",
   "anchet", "procuror", "parchet", "dna", "diicot", "dosar", "inculpat",
   "trimis in judecata", "condamnat", "sentin", "accident", "colizi",
   "exploz", "incend", "inunda", "cutremur", "dezastru", "uragan", "tornad",
   "victim", "morti", "raniti", "corup", "mita", "spag", "fraud", "scandal",
   "faliment", "colaps", "criz", "scumpir", "infla", "reces", "somaj"}

SOFT_NEGATIVE ==
  {"politic", "guvern", "parlament", "aleger", "ministr", "presed",
   "controvers", "tensiun", "protest", "grev"}

POSITIVE_STRONG ==
  {"medalie de aur", "medalie de argint", "medalie de bronz", "locul intai",
   "campion", "campioan", "olimpiad", "record", "a castigat", "vindec",
   "tratament nou", "terapie nou", "vaccin", "imuniz",
   "rezultate promitatoare", "remisie", "supravietuire", "salvat",
   "au salvat", "adopt", "voluntar", "donat", "spital nou", "sectie nou",
   "inaugur"}

POSITIVE_WEAK ==
  {"inova", "descoper", "cercet", "studiu", "test clinic", "aprobat",
   "start-up", "startup", "investi", "finantare", "parteneriat", "festival",
   "eveniment", "concert", "expozit", "muzeu", "dragut", "simpatic",
   "amuzant", "funny", "viral", "natura", "recicl", "plant", "padure",
   "energie verde"}

\* str.strip() on the strings of the model
Strip(s) ==
  CASE s = " " -> ""
    [] s = " Gluma 3 " -> "Gluma 3"
    [] OTHER -> s

\* str.lower() on the strings of the model
Lower(s) ==
  CASE s = "Spitalul a inaugurat o sectie noua" -> "spitalul a inaugurat o sectie noua"
    [] s = "Festival de muzica" -> "festival de muzica"
    [] s = "Campioana la Guvern si Parlament" -> "campioana la guvern si parlament"
    [] s = "Criza politica si un record" -> "criza politica si un record"
    [] s = "Stire oarecare" -> "stire oarecare"
    [] s = "Protest la minister" -> "protest la minister"
    [] s = "Un studiu nou" -> "un studiu nou"
    [] OTHER -> s

\* the phrases kw of the four lists with `kw in s`, for a lowercased string s
Phrases(s) ==
  CASE s = "spitalul a inaugurat o sectie noua" -> {"inaugur", "sectie nou"}
    [] s = "festival de muzica" -> {"festival"}
    [] s = "campioana la guvern si parlament" -> {"campioan", "guvern", "parlament"}
    [] s = "criza politica si un record" -> {"criz", "politic", "record"}
    [] s = "protest la minister" -> {"protest"}
    [] s = "un studiu nou" -> {"studiu"}
    [] OTHER -> {}

\* text = f"{title} {summary}".lower(), kept as its two lowercased parts: no
\* phrase of the lists straddles the joining space in the texts of the model
TextOf(title, summary) == <<Lower(title), Lower(summary)>>

\* kw in text
In(kw, text) == kw \in (Phrases(text[1]) \cup Phrases(text[2]))

\* the number of phrases of a list that occur in the text: one `if kw in text`
\* per phrase of the list
Hits(list, text) == Cardinality({kw \in list : In(kw, text)})

\* score_item without its hard-reject loop (what the scoring would be if the
\* loop over NEGATIVE_KEYWORDS were missing)
score_item_no_hard_reject(title, summary, kind) ==
  LET text == TextOf(title, summary)
      score == 2 * Hits(POSITIVE_STRONG, text) + Hits(POSITIVE_WEAK, text)
               - Hits(SOFT_NEGATIVE, text)
  IN  IF kind = "ro" /\ score <= 0 THEN HardReject ELSE score

\* def score_item(title, summary, kind) -> int
score_item(title, summary, kind) ==
  LET text == TextOf(title, summary)
      score == 2 * Hits(POSITIVE_STRONG, text) + Hits(POSITIVE_WEAK, text)
               - Hits(SOFT_NEGATIVE, text)
  IN  IF \E kw \in NEGATIVE_KEYWORDS : In(kw, text) THEN HardReject
      ELSE IF kind = "ro" /\ score <= 0 THEN HardReject
      ELSE score

\* A call score_item(*args) as Python evaluates it: the function takes exactly
\* score_item_params positional arguments and returns an int; any other number
\* of arguments raises TypeError before the body runs.
call_score_item(args) ==
  IF Len(args) = score_item_params
    THEN [exc |-> "none", type |-> "int",
          int |-> score_item(args[1], args[2], args[3]), tuple |-> <<>>]
    ELSE [exc |-> "TypeError", type |-> "none", int |-> 0, tuple |-> <<>>]

\* `score, allowed = value`: only a two-element iterable unpacks, an int raises
\* TypeError
unpack2(r) ==
  IF r.exc # "none" THEN [exc |-> r.exc, a |-> 0, b |-> FALSE]
  ELSE IF r.type = "tuple" /\ Len(r.tuple) = 2
    THEN [exc |-> "none", a |-> r.tuple[1], b |-> r.tuple[2]]
    ELSE [exc |-> "TypeError", a |-> 0, b |-> FALSE]

\* hashlib.sha1(...).hexdigest(): distinct inputs give distinct digests
sha1hex(s) == <<"sha1", s>>

\* def dedupe_key(link, title)
dedupe_key(link, title) ==
  LET base == Strip(IF link # "" THEN link ELSE IF title # "" THEN title ELSE "")
  IN  sha1hex(base)

\* ------------------------------------------------------------------------
\* Feeds and configurations of build_sections
\* ------------------------------------------------------------------------

\* dt = 0: the entry has no parsable date (parse_entry_datetime gives None)
Entry(t, l, s, d) == [title |-> t, link |-> l, summary |-> s, dt |-> d]

EntryPool ==
  { Entry("Spitalul a inaugurat o sectie noua", "https://x/a", "", 2),
    Entry("Spitalul a inaugurat o sectie noua", "https://x/a?utm_source=fb", "", 1),
    Entry("Festival de muzica", "https://x/b", "Un studiu nou", 0),
    Entry("Campioana la Guvern si Parlament", "https://x/c", "", 1),
    Entry("Criza politica si un record", "https://x/d", "", 2),
    Entry("Stire oarecare", "https://x/e", "", 1),
    Entry(" ", "https://x/f", "Un studiu nou", 1),
    Entry("Protest la minister", "", "", 2) }

SeqsUpTo(S, n) == UNION {[1..k -> S] : k \in 0..n}

\* what fetch_rss can return: feed.entries
Feeds == SeqsUpTo(EntryPool, MaxEntries)

\* datetime.now(timezone.utc), to the second
Times == 1..3

Take(s, n) == IF Len(s) <= n THEN s ELSE SubSeq(s, 1, n)

Source(n, u) == [name |-> n, url |-> u]

SourceLists ==
  { <<>>, <<Source("n1", "u1")>>, <<Source("n0", " "), Source("n1", "u1")>> }

\* cfg["rss_sources"], in the order of the mapping
RssSources ==
  { <<>> }
  \cup { <<[id |-> s, sources |-> l]>> : s \in {"romania"}, l \in SourceLists }
  \cup { <<[id |-> "romania", sources |-> l1], [id |-> "science", sources |-> l2]>> :
           l1 \in SourceLists, l2 \in SourceLists }
  \cup { <<[id |-> "science", sources |-> l1], [id |-> "romania", sources |-> l2]>> :
           l1 \in SourceLists, l2 \in SourceLists }

\* cfg["sections"] (id, max_items) and cfg["filters"]["thresholds"]
SectionSettings ==
  { [sections |-> <<[id |-> "romania", max_items |-> 1]>>,
     thresholds |-> [s \in {} |-> 0]],
    [sections |-> <<[id |-> "science", max_items |-> Absent]>>,
     thresholds |-> [s \in {"science"} |-> 1]] }

Configs ==
  { [rss_sources |-> r, sections |-> st.sections, thresholds |-> st.thresholds] :
      r \in RssSources, st \in SectionSettings }

\* max_items_map = {s["id"]: int(s.get("max_items", 20)) for s in sections_def}
max_items_map(c) ==
  [id \in {c.sections[i].id : i \in DOMAIN c.sections} |->
     LET i == CHOOSE k \in DOMAIN c.sections :
                c.sections[k].id = id
                /\ \A m \in DOMAIN c.sections : c.sections[m].id = id => m <= k
     IN  IF c.sections[i].max_items = Absent THEN DefaultMaxItems
         ELSE c.sections[i].max_items]

\* max_items_map.get(section_id, 20)
max_items_of(c, section_id) ==
  IF section_id \in DOMAIN max_items_map(c) THEN max_items_map(c)[section_id]
  ELSE DefaultMaxItems

\* int(thresholds.get(section_id, 0))
threshold_of(c, section_id) ==
  IF section_id \in DOMAIN c.thresholds THEN c.thresholds[section_id]
  ELSE DefaultThreshold

\* kind = "ro" if section_id == "romania" else "global"
kind_of(section_id) == IF section_id = "romania" THEN "ro" ELSE "global"

\* items.sort(key=published_utc, reverse=True): a stable sort, newest first;
\* x goes after every element that is not older than x
RECURSIVE insert_desc(_, _)
insert_desc(sorted, x) ==
  IF sorted = <<>> THEN <<x>>
  ELSE IF Head(sorted).published_utc >= x.published_utc
    THEN <<Head(sorted)>> \o insert_desc(Tail(sorted), x)
    ELSE <<x>> \o sorted

RECURSIVE sort_desc(_)
sort_desc(s) ==
  IF s = <<>> THEN <<>>
  ELSE insert_desc(sort_desc(SubSeq(s, 1, Len(s) - 1)), s[Len(s)])

\* items[:n] for n >= 0
truncate(s, n) == Take(s, n)

\* ------------------------------------------------------------------------
\* interleave_lists and flatten_items
\* ------------------------------------------------------------------------

\* pattern=(2, 1): take_a, take_b
pattern_one_one == <<1, 1>>
pattern == <<2, 1>>

\* limit=60 in flatten_items
FlattenLimit == 60

\* for _ in range(n): if i < len(l) and len(out) < limit: out.append(l[i]); i += 1
\* i counts the elements of l already taken
RECURSIVE take(_, _, _, _, _)
take(l, i, o, limit, n) ==
  IF n = 0 THEN [out |-> o, i |-> i]
  ELSE IF i < Len(l) /\ Len(o) < limit
    THEN take(l, i + 1, Append(o, l[i + 1]), limit, n - 1)
    ELSE take(l, i, o, limit, n - 1)

\* while i < len(l) and len(out) < limit: out.append(l[i]); i += 1
RECURSIVE drain(_, _, _, _)
drain(l, i, o, limit) ==
  IF i < Len(l) /\ Len(o) < limit
    THEN drain(l, i + 1, Append(o, l[i + 1]), limit)
    ELSE [out |-> o, i |-> i]

\* the condition of the outer while of interleave_lists
interleave_more(a, b, st, limit) ==
  Len(st.out) < limit /\ (st.i < Len(a) \/ st.j < Len(b))

\* one pass of the body of the outer while; st is [out, i, j]
interleave_round(a, b, st, limit) ==
  LET ta == take(a, st.i, st.out, limit, pattern[1])
      tb == take(b, st.j, ta.out, limit, pattern[2])
      db == IF ta.i >= Len(a) THEN drain(b, tb.i, tb.out, limit) ELSE tb
      da == IF db.i >= Len(b) THEN drain(a, ta.i, db.out, limit)
            ELSE [out |-> db.out, i |-> ta.i]
  IN  [out |-> da.out, i |-> da.i, j |-> db.i]

\* def interleave_lists(a, b, pattern=(2, 1), limit)
RECURSIVE interleave_loop(_, _, _, _)
interleave_loop(a, b, st, limit) ==
  IF interleave_more(a, b, st, limit)
    THEN interleave_loop(a, b, interleave_round(a, b, st, limit), limit)
    ELSE st.out

interleave_lists(a, b, limit) ==
  interleave_loop(a, b, [out |-> <<>>, i |-> 0, j |-> 0], limit)

\* sections.get(sec, []) or []
section_list(sections, sec) ==
  IF sec \in DOMAIN sections THEN sections[sec] ELSE <<>>

\* def flatten_items(sections)
flatten_items(sections) ==
  LET ro == section_list(sections, "romania")
      global_items == section_list(sections, "medical")
                        \o section_list(sections, "science")
                        \o section_list(sections, "environment")
  IN  interleave_lists(sort_desc(ro), sort_desc(global_items), FlattenLimit)

\* ------------------------------------------------------------------------
\* State
\* ------------------------------------------------------------------------

None == [none |-> TRUE]

VARIABLES
  cfg,      \* the configuration build_sections is called with
  pc,       \* where build_sections is: "idle", "sections", "sources",
            \* "entries", "done" (returned), "raised" (left by an exception)
  secIdx,   \* position of the for loop over rss_sources.items()
  srcIdx,   \* position of the for loop over the section's sources
  feed,     \* feed.entries[:60] of the source being read
  ei,       \* position of the for loop over the entries
  items,    \* items of the section being built
  seen,     \* the set of dedupe keys
  out,      \* the result: section id -> list of items
  exc       \* the exception that ended build_sections, "none" if none

bsVars == <<cfg, pc, secIdx, srcIdx, feed, ei, items, seen, out, exc>>

NoConfig == [rss_sources |-> <<>>, sections |-> <<>>, thresholds |-> [s \in {} |-> 0]]

\* the variables of build_sections while another routine is modelled
bsIdle ==
  /\ cfg = NoConfig /\ pc = "idle" /\ secIdx = 0 /\ srcIdx = 0 /\ feed = <<>>
  /\ ei = 0 /\ items = <<>> /\ seen = {} /\ out = <<>> /\ exc = "none"

\* build_sections is called: out = {}, seen = set()
bsInit ==
  /\ cfg \in Configs
  /\ pc = "sections" /\ secIdx = 1 /\ srcIdx = 0 /\ feed = <<>> /\ ei = 0
  /\ items = <<>> /\ seen = {} /\ out = <<>> /\ exc = "none"

VARIABLES
  photo_sources, \* cfg["photo_sources"]
  ph_pc,         \* "idle", "category", "sources", "entries", "done"
  catIdx,        \* position of the for loop over the categories
  psrcIdx,       \* position of the for loop over the category's sources
  pfeed,         \* feed.entries[:60] of the photo source being read
  pei,           \* position of the for loop over the entries
  picked,        \* the photo picked for the category, None if none
  used_images,   \* the images of the photos picked so far
  photos,        \* the result list
  ph_hist        \* per category position: was an entry with a link and an
                 \* image not used before met, was an entry skipped because
                 \* its image was used (history, for the properties)

phVars == <<photo_sources, ph_pc, catIdx, psrcIdx, pfeed, pei, picked,
            used_images, photos, ph_hist>>

NoHist == [usable |-> FALSE, skipped_used |-> FALSE]

phIdle ==
  /\ photo_sources = <<>> /\ ph_pc = "idle" /\ catIdx = 0 /\ psrcIdx = 0
  /\ pfeed = <<>> /\ pei = 0 /\ picked = None /\ used_images = {}
  /\ photos = <<>> /\ ph_hist = <<>>

VARIABLES
  satire_enabled, \* cfg["satire"]["enabled"]
  sa_pc,          \* "idle", "start", "listing", "shuffle", "probe",
                  \* "fallback", "done"
  luIdx,          \* position of the for loop over listing_urls
  candidates,     \* the article links collected, later shuffled
  sa_seen,        \* the hrefs met while collecting
  probeIdx,       \* position of the for loop over candidates[:25]
  picked_link, picked_title, picked_summary,
  satire,         \* the list build_satire returns
  probes          \* what each probe of a candidate met (history, for the
                  \* properties)

saVars == <<satire_enabled, sa_pc, luIdx, candidates, sa_seen, probeIdx,
            picked_link, picked_title, picked_summary, satire, probes>>

saIdle ==
  /\ satire_enabled = FALSE /\ sa_pc = "idle" /\ luIdx = 0 /\ candidates = <<>>
  /\ sa_seen = {} /\ probeIdx = 0 /\ picked_link = "" /\ picked_title = ""
  /\ picked_summary = "" /\ satire = <<>> /\ probes = <<>>

VARIABLES
  jokes_file,  \* the lines of data/jokes_ro.txt, or NoFile
  clock,       \* datetime.now(timezone.utc): [day, hour]
  joke,        \* what the last call of build_joke returned
  joke_calls   \* the calls of build_joke so far: clock, index and result
               \* (history, for the properties)

jkVars == <<jokes_file, clock, joke, joke_calls>>

NoFile == <<"no file">>

NoJoke == [date_utc |-> "", text |-> ""]

jkIdle ==
  /\ jokes_file = NoFile /\ clock = [day |-> 0, hour |-> 0]
  /\ joke = NoJoke /\ joke_calls = {}

VARIABLES
  config_file, \* what is at CONFIG_PATH: NoConfigFile, or what load_yaml returns
  mn_pc,       \* where main is: "idle", "start", "build_sections",
               \* "build_photos", "build_joke", "build_satire", "written"
               \* (the output file is written), "exited" (left by an exception)
  mn_cfg,      \* cfg of main
  sections,    \* sections of main: section name -> list
  out_file,    \* what is at OUT_PATH: NotWritten, or the payload
  mn_exit      \* the exception that ended main, "none" if none

mnVars == <<config_file, mn_pc, mn_cfg, sections, out_file, mn_exit>>

\* yaml.safe_load of an empty document
NoneDoc == [none_doc |-> TRUE]

\* no file at CONFIG_PATH
NoConfigFile == [missing |-> TRUE]

NotWritten == [not_written |-> TRUE]

mnIdle ==
  /\ config_file = NoConfigFile /\ mn_pc = "idle" /\ mn_cfg = NoneDoc
  /\ sections = <<>> /\ out_file = NotWritten /\ mn_exit = "none"

VARIABLES
  il_a,      \* the argument a of interleave_lists
  il_b,      \* the argument b
  il_limit,  \* the argument limit
  il_st,     \* the locals out, i, j
  il_pc,     \* "idle", "loop", "done" (returned)
  il_rounds  \* passes of the outer while so far

ilVars == <<il_a, il_b, il_limit, il_st, il_pc, il_rounds>>

ilIdle ==
  /\ il_a = <<>> /\ il_b = <<>> /\ il_limit = 0
  /\ il_st = [out |-> <<>>, i |-> 0, j |-> 0] /\ il_pc = "idle" /\ il_rounds = 0

vars == <<bsVars, phVars, saVars, jkVars, mnVars, ilVars>>

bsOther == <<phVars, saVars, jkVars, mnVars, ilVars>>

phOther == <<bsVars, saVars, jkVars, mnVars, ilVars>>

saOther == <<bsVars, phVars, jkVars, mnVars, ilVars>>

jkOther == <<bsVars, phVars, saVars, mnVars, ilVars>>

ilOther == <<bsVars, phVars, saVars, jkVars, mnVars>>

\* ------------------------------------------------------------------------
\* build_sections
\* ------------------------------------------------------------------------

section == cfg.rss_sources[secIdx]
section_id == section.id

\* out[section_id] = value
SetOut(o, id, value) ==
  [k \in (DOMAIN o) \cup {id} |-> IF k = id THEN value ELSE o[k]]

\* for section_id, sources in rss_sources.items(): items = []
StartSection ==
  /\ pc = "sections" /\ secIdx <= Len(cfg.rss_sources)
  /\ items' = <<>> /\ srcIdx' = 1 /\ pc' = "sources"
  /\ UNCHANGED <<cfg, secIdx, feed, ei, seen, out, exc>>
  /\ UNCHANGED bsOther

\* the loop over the sections is over: return out
Return ==
  /\ pc = "sections" /\ secIdx > Len(cfg.rss_sources)
  /\ pc' = "done"
  /\ UNCHANGED <<cfg, secIdx, srcIdx, feed, ei, items, seen, out, exc>>
  /\ UNCHANGED bsOther

\* a source whose url is empty: continue
SkipSource ==
  /\ pc = "sources" /\ srcIdx <= Len(section.sources)
  /\ Strip(section.sources[srcIdx].url) = ""
  /\ srcIdx' = srcIdx + 1
  /\ UNCHANGED <<cfg, pc, secIdx, feed, ei, items, seen, out, exc>>
  /\ UNCHANGED bsOther

\* feed = fetch_rss(url); for e in feed.entries[:60]
FetchSource ==
  /\ pc = "sources" /\ srcIdx <= Len(section.sources)
  /\ Strip(section.sources[srcIdx].url) # ""
  /\ \E f \in Feeds : feed' = Take(f, EntriesCap)
  /\ ei' = 1 /\ pc' = "entries"
  /\ UNCHANGED <<cfg, secIdx, srcIdx, items, seen, out, exc>>
  /\ UNCHANGED bsOther

\* The body of the loop over the entries, for the entry e at position ei, at
\* time `now`, with the translations deepl_translate gives (tr_title, tr_sum:
\* whether a translation came back).
EntryStep(e, now, tr_title, tr_sum) ==
  LET title == Strip(e.title)
      link == Strip(e.link)
      summary == e.summary
      published == IF e.dt # 0 THEN e.dt ELSE now
      r == unpack2(call_score_item(<<section_id, title, summary, cfg>>))
      score == r.a
      allowed == r.b
      thr == threshold_of(cfg, section_id)
      key == dedupe_key(link, title)
      kind == kind_of(section_id)
      item == [section |-> section_id, kind |-> kind,
               source |-> section.sources[srcIdx].name,
               title |-> title, summary |-> summary, link |-> link,
               published_utc |-> published, score |-> score,
               title_ro |-> (kind = "global" /\ tr_title),
               summary_ro |-> (kind = "global" /\ tr_sum)]
  IN  IF title = "" \/ link = ""
        THEN /\ ei' = ei + 1
             /\ UNCHANGED <<pc, items, seen, exc>>
      ELSE IF r.exc # "none"
        THEN /\ pc' = "raised" /\ exc' = r.exc
             /\ UNCHANGED <<ei, items, seen>>
      ELSE IF ~allowed \/ score < thr \/ key \in seen
        THEN /\ ei' = ei + 1
             /\ UNCHANGED <<pc, items, seen, exc>>
      ELSE /\ seen' = seen \cup {key}
           /\ items' = Append(items, item)
           /\ ei' = ei + 1
           /\ UNCHANGED <<pc, exc>>

ProcessEntry ==
  /\ pc = "entries" /\ ei <= Len(feed)
  /\ \E now \in Times, tr_title \in BOOLEAN, tr_sum \in BOOLEAN :
       EntryStep(feed[ei], now, tr_title, tr_sum)
  /\ UNCHANGED <<cfg, secIdx, srcIdx, feed, out>>
  /\ UNCHANGED bsOther

\* the entries of the feed are exhausted: next source
EndFeed ==
  /\ pc = "entries" /\ ei > Len(feed)
  /\ srcIdx' = srcIdx + 1 /\ pc' = "sources"
  /\ UNCHANGED <<cfg, secIdx, feed, ei, items, seen, out, exc>>
  /\ UNCHANGED bsOther

\* after the last source: items.sort(...); items = items[:max]; out[id] = items
FinishSection ==
  /\ pc = "sources" /\ srcIdx > Len(section.sources)
  /\ out' = SetOut(out, section_id,
                   truncate(sort_desc(items), max_items_of(cfg, section_id)))
  /\ secIdx' = secIdx + 1 /\ pc' = "sections"
  /\ UNCHANGED <<cfg, srcIdx, feed, ei, items, seen, exc>>
  /\ UNCHANGED bsOther

bsNext ==
  \/ StartSection
  \/ Return
  \/ SkipSource
  \/ FetchSource
  \/ ProcessEntry
  \/ EndFeed
  \/ FinishSection

\* ------------------------------------------------------------------------
\* Properties of build_sections
\* ------------------------------------------------------------------------

\* build_sections is reading a feed, or was ended by an exception while reading
InFeed == pc \in {"entries", "raised"}

\* the entry has a title and a link (it is not skipped by `continue`)
Valid(e) == Strip(e.title) # "" /\ Strip(e.link) # ""

\* the text built from the entry's title and summary
EntryText(e) == TextOf(Strip(e.title), e.summary)

\* the text contains a hard-block phrase
HardBlocked(e) == \E kw \in NEGATIVE_KEYWORDS : In(kw, EntryText(e))

\* the text contains a strict positive-hint phrase
HasStrict(e) == \E kw \in POSITIVE_STRONG : In(kw, EntryText(e))

\* the loop over the entries has handled entry i of the feed
Processed(i) == InFeed /\ (i < ei \/ (i = ei /\ pc = "raised"))

\* the entry is among the items of the section being built
InItems(e) ==
  \E k \in DOMAIN items :
    items[k].title = Strip(e.title) /\ items[k].link = Strip(e.link)

\* every item of every list build_sections holds or has returned
AllItems ==
  {items[k] : k \in DOMAIN items}
  \cup UNION {{out[s][k] : k \in DOMAIN out[s]} : s \in DOMAIN out}

\* C1: an entry whose text contains a hard-block phrase is in no section list,
\* whatever positive phrases the text also contains: score_item gives it the
\* reject value whatever the section, and no list holds an item with such a
\* text.
C1_HardBlockedNeverListed ==
  /\ \A it \in AllItems :
       ~\E kw \in NEGATIVE_KEYWORDS : In(kw, TextOf(it.title, it.summary))
  /\ InFeed =>
       \A i \in DOMAIN feed :
         HardBlocked(feed[i]) =>
           /\ score_item(Strip(feed[i].title), feed[i].summary,
                         kind_of(section_id)) = HardReject
           /\ ~InItems(feed[i])

\* C1 witness: the loop has reached an entry with a title and a link whose
\* text holds a hard-block phrase and a strong positive phrase.
C1_Witness ==
  /\ pc = "raised" /\ ei \in DOMAIN feed
  /\ Valid(feed[ei]) /\ HardBlocked(feed[ei]) /\ HasStrict(feed[ei])

\* canonicalize(link) of the specification (4.3): tracking query parameters
\* and the fragment removed, a trailing slash trimmed
Canonical(link) ==
  IF link = "https://x/a?utm_source=fb" THEN "https://x/a" ELSE link

\* score_item does not reject the entry and its score reaches the threshold
PassesScore(e) ==
  LET sc == score_item(Strip(e.title), e.summary, kind_of(section_id))
  IN  sc # HardReject /\ sc >= threshold_of(cfg, section_id)

\* C3 (as claimed): two entries of a run with equal titles and links that are
\* equal after canonicalization are one item for the deduplication: the later
\* one is dropped, which the code does exactly when its dedupe key is the key
\* of the first.
C3_Claim ==
  InFeed =>
    \A i, j \in DOMAIN feed :
      ( /\ i < j /\ Valid(feed[i]) /\ Valid(feed[j])
        /\ PassesScore(feed[i]) /\ PassesScore(feed[j])
        /\ Strip(feed[i].title) = Strip(feed[j].title)
        /\ Canonical(Strip(feed[i].link)) = Canonical(Strip(feed[j].link)) )
      => dedupe_key(Strip(feed[i].link), Strip(feed[i].title))
           = dedupe_key(Strip(feed[j].link), Strip(feed[j].title))

\* C5 (as claimed): in the romania section an entry without a hard-block
\* phrase is admitted if and only if its text holds a strict positive-hint
\* phrase: score_item lets it pass exactly then, and once the loop has
\* handled the entry it is among the items exactly then.
C5_Claim ==
  (InFeed /\ section_id = "romania") =>
    \A i \in DOMAIN feed :
      (Valid(feed[i]) /\ ~HardBlocked(feed[i])) =>
        /\ PassesScore(feed[i]) <=> HasStrict(feed[i])
        /\ Processed(i) => (InItems(feed[i]) <=> HasStrict(feed[i]))

\* the additive score: two per strong phrase, one per weak phrase, minus one
\* per soft-negative phrase
Additive(e) ==
  2 * Hits(POSITIVE_STRONG, EntryText(e)) + Hits(POSITIVE_WEAK, EntryText(e))
  - Hits(SOFT_NEGATIVE, EntryText(e))

\* C6 (as claimed): in a section other than romania an entry without a
\* hard-block phrase is rejected exactly when its additive score is negative
\* or below the section's threshold; once the loop has handled the entry it is
\* among the items otherwise.
C6_Claim ==
  (InFeed /\ section_id # "romania") =>
    \A i \in DOMAIN feed :
      (Valid(feed[i]) /\ ~HardBlocked(feed[i]) /\ Processed(i)) =>
        (~InItems(feed[i]) <=>
           (Additive(feed[i]) < 0
            \/ Additive(feed[i]) < threshold_of(cfg, section_id)))

\* ------------------------------------------------------------------------
\* build_photos and extract_image_url
\* ------------------------------------------------------------------------

\* categories = [("space", ...), ("animals", ...), ("landscapes", ...)]
categories ==
  << [id |-> "space", label |-> "Spatiu"],
     [id |-> "animals", label |-> "Animale"],
     [id |-> "landscapes", label |-> "Peisaj"] >>

\* no image: None, or a string that is empty once stripped
NoImage == ""

\* the first url of a list of {"url": ...} items that is not empty once stripped
RECURSIVE first_url(_)
first_url(urls) ==
  IF urls = <<>> THEN NoImage
  ELSE IF Strip(Head(urls)) # "" THEN Strip(Head(urls))
  ELSE first_url(Tail(urls))

\* the first href of the links with rel == "enclosure" and a non-empty href
RECURSIVE first_enclosure(_)
first_enclosure(links) ==
  IF links = <<>> THEN NoImage
  ELSE IF Lower(Head(links).rel) = "enclosure" /\ Strip(Head(links).href) # ""
    THEN Strip(Head(links).href)
  ELSE first_enclosure(Tail(links))

\* def extract_image_url(e); og is what extract_og_image finds in the page of
\* the entry's link (NoImage when the fetch fails or the page has none)
extract_image_url(e, og) ==
  IF first_url(e.media_content) # NoImage THEN first_url(e.media_content)
  ELSE IF first_url(e.media_thumbnail) # NoImage THEN first_url(e.media_thumbnail)
  ELSE IF first_enclosure(e.links) # NoImage THEN first_enclosure(e.links)
  ELSE IF e.html_img # <<>> THEN Strip(e.html_img[1])
  ELSE IF Strip(e.link) # "" THEN Strip(og)
  ELSE NoImage

\* a photo entry of a feed; html_img is the match of the <img src=...> search
\* in the summary (<<>> when there is none)
PhotoEntry(t, l, mc, mt, ls, h) ==
  [title |-> t, link |-> l, media_content |-> mc, media_thumbnail |-> mt,
   links |-> ls, html_img |-> h]

PhotoPool ==
  { PhotoEntry("Nebula", "https://f/1", <<"img1">>, <<>>, <<>>, <<>>),
    PhotoEntry("", "https://f/2", <<" ">>, <<"img2">>, <<>>, <<>>),
    PhotoEntry("Fox", "", <<"img3">>, <<>>, <<>>, <<>>),
    PhotoEntry("Lake", "https://f/4", <<>>, <<>>,
               <<[rel |-> "alternate", href |-> "https://f/4"],
                 [rel |-> "enclosure", href |-> "img1"]>>, <<>>),
    PhotoEntry("Hill", "https://f/5", <<>>, <<>>, <<>>, <<>>),
    PhotoEntry("Moon", "https://f/6", <<>>, <<>>, <<>>, <<" ">>) }

\* entries in one fetched photo feed
MaxPhotoEntries == 2

PhotoFeeds == SeqsUpTo(PhotoPool, MaxPhotoEntries)

\* what the page of an entry's link yields as og:image
OgImages == {NoImage, "img2", "img4"}

PhotoSourceLists ==
  { <<>>, <<Source("Flickr", "u1")>>,
    <<Source("none", ""), Source("Flickr", "u1")>> }

\* cfg["photo_sources"]: category id -> sources; a category may be missing
PhotoConfigs ==
  { [c \in {"space", "animals", "landscapes"} |-> <<Source("Flickr", "u1")>>],
    [c \in {"space", "landscapes"} |->
       IF c = "space" THEN <<Source("none", ""), Source("Flickr", "u1")>>
       ELSE <<Source("Flickr", "u1"), Source("Flickr2", "u2")>>],
    [c \in {"animals"} |-> <<>>] }

\* the placeholder appended when a category has no picked photo
placeholder(cat) ==
  [category_id |-> cat.id, category_label |-> cat.label, source |-> "-",
   title |-> "Nu am gasit poza acum (refresh urmator)",
   link |-> "https://vcarciu.github.io/vesti-bune/",
   image_url |-> "https://vcarciu.github.io/vesti-bune/og.jpg"]

\* build_photos is called: out = [], used_images = set()
phInit ==
  /\ photo_sources \in PhotoConfigs
  /\ ph_pc = "category" /\ catIdx = 1 /\ psrcIdx = 0
  /\ pfeed = <<>> /\ pei = 0 /\ picked = None /\ used_images = {}
  /\ photos = <<>> /\ ph_hist = [i \in 1..3 |-> NoHist]

cat == categories[catIdx]

\* sources = photo_sources.get(cat_id) or []
cat_sources ==
  IF cat.id \in DOMAIN photo_sources THEN photo_sources[cat.id] ELSE <<>>

\* for cat_id, cat_label in categories: picked = None
StartCategory ==
  /\ ph_pc = "category" /\ catIdx <= Len(categories)
  /\ picked' = None /\ psrcIdx' = 1 /\ ph_pc' = "sources"
  /\ UNCHANGED <<photo_sources, catIdx, pfeed, pei, used_images, photos, ph_hist>>
  /\ UNCHANGED phOther

\* return out[:3]
ReturnPhotos ==
  /\ ph_pc = "category" /\ catIdx > Len(categories)
  /\ photos' = Take(photos, 3) /\ ph_pc' = "done"
  /\ UNCHANGED <<photo_sources, catIdx, psrcIdx, pfeed, pei, picked,
                 used_images, ph_hist>>
  /\ UNCHANGED phOther

\* a photo source whose url is empty: continue
SkipPhotoSource ==
  /\ ph_pc = "sources" /\ picked = None /\ psrcIdx <= Len(cat_sources)
  /\ Strip(cat_sources[psrcIdx].url) = ""
  /\ psrcIdx' = psrcIdx + 1
  /\ UNCHANGED <<photo_sources, ph_pc, catIdx, pfeed, pei, picked,
                 used_images, photos, ph_hist>>
  /\ UNCHANGED phOther

\* feed = fetch_rss(url); for e in feed.entries[:60]
FetchPhotoSource ==
  /\ ph_pc = "sources" /\ picked = None /\ psrcIdx <= Len(cat_sources)
  /\ Strip(cat_sources[psrcIdx].url) # ""
  /\ \E f \in PhotoFeeds : pfeed' = Take(f, EntriesCap)
  /\ pei' = 1 /\ ph_pc' = "entries"
  /\ UNCHANGED <<photo_sources, catIdx, psrcIdx, picked, used_images,
                 photos, ph_hist>>
  /\ UNCHANGED phOther

\* `if img in used_images: continue`, the test
already_used_never(img, used) == FALSE

already_used(img, used) == img \in used

\* the body of the loop over the entries of a photo feed, for the entry e,
\* og being what the page of its link yields
PhotoEntryStep(e, og) ==
  LET title == Strip(e.title)
      link == Strip(e.link)
      img == extract_image_url(e, og)
  IN  IF link = "" \/ img = NoImage \/ already_used(img, used_images)
        THEN /\ pei' = pei + 1
             /\ UNCHANGED <<ph_pc, psrcIdx, picked>>
      ELSE /\ picked' = [category_id |-> cat.id, category_label |-> cat.label,
                         source |-> cat_sources[psrcIdx].name,
                         title |-> (IF title # "" THEN title ELSE cat.label),
                         link |-> link, image_url |-> img]
           /\ ph_pc' = "sources"
           /\ UNCHANGED <<pei, psrcIdx>>

\* what the entry e is for the category, whatever the loop does with it:
\* usable (a link and an image not used by an earlier category), or an entry
\* with a link whose image is used already
NoteEntry(h, e, og) ==
  LET img == extract_image_url(e, og)
      with_image == Strip(e.link) # "" /\ img # NoImage
  IN  [usable |-> h.usable \/ (with_image /\ img \notin used_images),
       skipped_used |-> h.skipped_used \/ (with_image /\ img \in used_images)]

ProcessPhotoEntry ==
  /\ ph_pc = "entries" /\ pei <= Len(pfeed)
  /\ \E og \in OgImages :
       /\ PhotoEntryStep(pfeed[pei], og)
       /\ ph_hist' = [ph_hist EXCEPT ![catIdx] = NoteEntry(@, pfeed[pei], og)]
  /\ UNCHANGED <<photo_sources, catIdx, pfeed, used_images, photos>>
  /\ UNCHANGED phOther

\* the entries of the photo feed are exhausted: next source
EndPhotoFeed ==
  /\ ph_pc = "entries" /\ pei > Len(pfeed)
  /\ psrcIdx' = psrcIdx + 1 /\ ph_pc' = "sources"
  /\ UNCHANGED <<photo_sources, catIdx, pfeed, pei, picked, used_images,
                 photos, ph_hist>>
  /\ UNCHANGED phOther

\* the end of a category without its else branch (no placeholder appended)
category_result_no_placeholder(o, p, c) ==
  IF p # None THEN Append(o, p) ELSE o

\* if picked: out.append(picked) else: out.append({placeholder})
category_result(o, p, c) ==
  IF p # None THEN Append(o, p) ELSE Append(o, placeholder(c))

\* the loop over the sources is over (a photo was picked, or no source is
\* left): record the image, append the photo or the placeholder
FinishCategory ==
  /\ ph_pc = "sources" /\ (picked # None \/ psrcIdx > Len(cat_sources))
  /\ used_images' = IF picked # None THEN used_images \cup {picked.image_url}
                    ELSE used_images
  /\ photos' = category_result(photos, picked, cat)
  /\ catIdx' = catIdx + 1 /\ ph_pc' = "category"
  /\ UNCHANGED <<photo_sources, psrcIdx, pfeed, pei, picked, ph_hist>>
  /\ UNCHANGED phOther

phNext ==
  \/ StartCategory
  \/ ReturnPhotos
  \/ SkipPhotoSource
  \/ FetchPhotoSource
  \/ ProcessPhotoEntry
  \/ EndPhotoFeed
  \/ FinishCategory

\* ------------------------------------------------------------------------
\* build_satire
\* ------------------------------------------------------------------------

listing_urls ==
  << "https://www.timesnewroman.ro/monden/",
     "https://www.timesnewroman.ro/sport/",
     "https://www.timesnewroman.ro/social/",
     "https://www.timesnewroman.ro/politic/",
     "https://www.timesnewroman.ro/life-death/" >>

\* for link in candidates[:25]
ProbeCap == 25

\* hrefs in one listing page
MaxHrefs == 2

\* the hrefs re.findall can give for a listing page (all match
\* https?://www.timesnewroman.ro/...)
HrefPool ==
  { "https://www.timesnewroman.ro/monden/a1/",
    "https://www.timesnewroman.ro/sport/a2",
    "https://www.timesnewroman.ro/tnr-premium/p1/",
    "https://www.timesnewroman.ro/monden/",
    "https://www.timesnewroman.ro/tag/x/",
    "http://www.timesnewroman.ro/life-death/a3/" }

HrefLists == SeqsUpTo(HrefPool, MaxHrefs)

\* h.startswith("https://www.timesnewroman.ro/")
starts_with_site(h) == h # "http://www.timesnewroman.ro/life-death/a3/"

\* "/tnr-premium/" in h
has_tnr_premium(h) == h = "https://www.timesnewroman.ro/tnr-premium/p1/"

\* any(bad in h for bad in ["/category/", "/tag/", "/author/", "/page/",
\* "/wp-", "feed", "rss", "#"])
has_bad_part(h) == h = "https://www.timesnewroman.ro/tag/x/"

\* re.match(r"^https?://www\.timesnewroman\.ro/([^/]+)/([^/]+)/?$", h) with a
\* slug that is not empty, "page" or "feed"
is_article(h) ==
  h \in { "https://www.timesnewroman.ro/monden/a1/",
          "https://www.timesnewroman.ro/sport/a2",
          "https://www.timesnewroman.ro/tnr-premium/p1/",
          "https://www.timesnewroman.ro/tag/x/",
          "http://www.timesnewroman.ro/life-death/a3/" }

\* the loop over the hrefs of one listing page: [seen, candidates] after it
RECURSIVE collect(_, _, _)
collect(hrefs, sn, cands) ==
  IF hrefs = <<>> THEN [seen |-> sn, candidates |-> cands]
  ELSE LET h == Head(hrefs)
       IN  IF ~starts_with_site(h) \/ has_tnr_premium(h) \/ has_bad_part(h)
              \/ h \in sn
             THEN collect(Tail(hrefs), sn, cands)
           ELSE IF ~is_article(h)
             THEN collect(Tail(hrefs), sn \cup {h}, cands)
           ELSE collect(Tail(hrefs), sn \cup {h}, Append(cands, h))

\* any(x in u for x in ["premium", "abon", "subscribe", "login", "cont"]) for
\* a lowercased final URL u
url_suspect(u) ==
  u \in { "https://www.timesnewroman.ro/tnr-premium/p1/",
          "https://www.timesnewroman.ro/abonare/" }

\* def looks_like_paywall(final_url, html); html.marker: the normalized page
\* text contains one of the paywall markers
looks_like_paywall(final_url, html) ==
  url_suspect(Lower(final_url)) \/ html.marker

\* what a page can be: the title get_page_title finds, the description
\* extract_meta_description finds ("" for none), the start of its text, and
\* whether it carries a paywall marker
Htmls ==
  { [title |-> "Titlu", meta |-> "descriere", text |-> "text", marker |-> FALSE],
    [title |-> "Titlu", meta |-> "descriere", text |-> "text", marker |-> TRUE],
    [title |-> "", meta |-> "", text |-> "text", marker |-> FALSE] }

NoHtml == [title |-> "", meta |-> "", text |-> "", marker |-> FALSE]

\* where a fetch of link can end after redirects
FinalUrls(link) ==
  { link, "https://www.timesnewroman.ro/tnr-premium/p1/",
    "https://www.timesnewroman.ro/abonare/" }

\* fetch_url_with_final(link): (None, None), or (r.text, r.url)
Fetches(link) ==
  { [ok |-> FALSE, html |-> NoHtml, final_url |-> ""] }
  \cup { [ok |-> TRUE, html |-> h, final_url |-> u] :
           h \in Htmls, u \in FinalUrls(link) }

Perms(s) ==
  { p \in [DOMAIN s -> {s[i] : i \in DOMAIN s}] :
      \A i, j \in DOMAIN s : i # j => p[i] # p[j] }

\* build_satire is called
saInit ==
  /\ satire_enabled \in BOOLEAN
  /\ sa_pc = "start" /\ luIdx = 0 /\ candidates = <<>>
  /\ sa_seen = {} /\ probeIdx = 0 /\ picked_link = "" /\ picked_title = ""
  /\ picked_summary = "" /\ satire = <<>> /\ probes = <<>>

\* if not satire_cfg.get("enabled", False): return []
SatireDisabled ==
  /\ sa_pc = "start" /\ ~satire_enabled
  /\ satire' = <<>> /\ sa_pc' = "done"
  /\ UNCHANGED <<satire_enabled, luIdx, candidates, sa_seen, probeIdx,
                 picked_link, picked_title, picked_summary, probes>>
  /\ UNCHANGED saOther

\* candidates = [], seen = set(), for lu in listing_urls
SatireStart ==
  /\ sa_pc = "start" /\ satire_enabled
  /\ luIdx' = 1 /\ sa_pc' = "listing"
  /\ UNCHANGED <<satire_enabled, candidates, sa_seen, probeIdx,
                 picked_link, picked_title, picked_summary, satire, probes>>
  /\ UNCHANGED saOther

\* the listing page cannot be fetched: continue
ListingFailed ==
  /\ sa_pc = "listing" /\ luIdx <= Len(listing_urls)
  /\ luIdx' = luIdx + 1
  /\ UNCHANGED <<satire_enabled, sa_pc, candidates, sa_seen, probeIdx,
                 picked_link, picked_title, picked_summary, satire, probes>>
  /\ UNCHANGED saOther

\* the listing page is fetched: its hrefs are filtered into candidates
ListingRead ==
  /\ sa_pc = "listing" /\ luIdx <= Len(listing_urls)
  /\ \E hrefs \in HrefLists :
       LET r == collect(hrefs, sa_seen, candidates)
       IN  sa_seen' = r.seen /\ candidates' = r.candidates
  /\ luIdx' = luIdx + 1
  /\ UNCHANGED <<satire_enabled, sa_pc, probeIdx,
                 picked_link, picked_title, picked_summary, satire, probes>>
  /\ UNCHANGED saOther

\* if not candidates: return the "nothing found" record
NoCandidates ==
  /\ sa_pc = "listing" /\ luIdx > Len(listing_urls) /\ candidates = <<>>
  /\ satire' = << [source |-> "TimesNewRoman", title |-> "TimesNewRoman",
                   summary |-> "Nu am gasit un articol azi (refresh urmator).",
                   link |-> "https://www.timesnewroman.ro/monden/"] >>
  /\ sa_pc' = "done"
  /\ UNCHANGED <<satire_enabled, luIdx, candidates, sa_seen, probeIdx,
                 picked_link, picked_title, picked_summary, probes>>
  /\ UNCHANGED saOther

\* random.shuffle(candidates)
Shuffle ==
  /\ sa_pc = "listing" /\ luIdx > Len(listing_urls) /\ candidates # <<>>
  /\ candidates' \in Perms(candidates)
  /\ probeIdx' = 1 /\ sa_pc' = "probe"
  /\ UNCHANGED <<satire_enabled, luIdx, sa_seen,
                 picked_link, picked_title, picked_summary, satire, probes>>
  /\ UNCHANGED saOther

\* what a probe met, for the properties
ProbeNote(link, f) ==
  [link |-> link, fetched |-> f.ok, final_url |-> f.final_url,
   paywalled |-> f.ok /\ looks_like_paywall(f.final_url, f.html)]

\* the body of the loop over candidates[:25]: fetch the candidate, skip it when
\* the fetch fails or ends in /tnr-premium/, else pick it and break
Probe ==
  /\ sa_pc = "probe" /\ probeIdx <= Len(Take(candidates, ProbeCap))
  /\ \E f \in Fetches(candidates[probeIdx]) :
       /\ probes' = Append(probes, ProbeNote(candidates[probeIdx], f))
       /\ IF ~f.ok \/ has_tnr_premium(Lower(f.final_url))
            THEN /\ probeIdx' = probeIdx + 1
                 /\ UNCHANGED <<sa_pc, picked_link, picked_title, picked_summary>>
            ELSE /\ picked_link' = f.final_url
                 /\ picked_title' = (IF f.html.title # "" THEN f.html.title
                                     ELSE "TimesNewRoman")
                 /\ picked_summary' = (IF f.html.meta # "" THEN f.html.meta
                                       ELSE f.html.text)
                 /\ sa_pc' = "result"
                 /\ UNCHANGED probeIdx
  /\ UNCHANGED <<satire_enabled, luIdx, candidates, sa_seen, satire>>
  /\ UNCHANGED saOther

\* if not picked_link: the first candidate, fetched once more
Fallback ==
  /\ sa_pc = "probe" /\ probeIdx > Len(Take(candidates, ProbeCap))
  /\ \E f \in Fetches(candidates[1]) :
       /\ picked_link' = (IF f.ok THEN f.final_url ELSE candidates[1])
       /\ picked_title' = (IF f.ok /\ f.html.title # "" THEN f.html.title
                           ELSE "TimesNewRoman")
       /\ picked_summary' = (IF f.ok THEN f.html.meta ELSE "")
  /\ sa_pc' = "fallback"
  /\ UNCHANGED <<satire_enabled, luIdx, candidates, sa_seen, probeIdx,
                 satire, probes>>
  /\ UNCHANGED saOther

\* return [{..., "title": picked_title or "TimesNewRoman", "link": picked_link}]
ReturnSatire ==
  /\ sa_pc \in {"result", "fallback"}
  /\ satire' = << [source |-> "TimesNewRoman",
                   title |-> (IF picked_title # "" THEN picked_title
                              ELSE "TimesNewRoman"),
                   summary |-> picked_summary, link |-> picked_link] >>
  /\ sa_pc' = IF sa_pc = "result" THEN "done" ELSE "done_fallback"
  /\ UNCHANGED <<satire_enabled, luIdx, candidates, sa_seen, probeIdx,
                 picked_link, picked_title, picked_summary, probes>>
  /\ UNCHANGED saOther

saNext ==
  \/ SatireDisabled
  \/ SatireStart
  \/ ListingFailed
  \/ ListingRead
  \/ NoCandidates
  \/ Shuffle
  \/ Probe
  \/ Fallback
  \/ ReturnSatire

\* ------------------------------------------------------------------------
\* build_joke
\* ------------------------------------------------------------------------

\* the UTC dates of the model: now.strftime("%Y-%m-%d") for day 1, 2, 3
Days == <<"2024-01-04", "2024-01-05", "2024-01-06">>

\* hours of a day at which build_joke may run
Hours == 0..1

\* lines in the jokes file
MaxLines == 2

LinePool == {"", "# comentariu", "Gluma 1", "Gluma 2", " Gluma 3 "}

JokeFiles == SeqsUpTo(LinePool, MaxLines) \cup {NoFile}

\* j.startswith("#")
starts_with_hash(j) == j = "# comentariu"

\* lines = [ln.strip() ...]; jokes = [j for j in lines if j and not
\* j.startswith("#")]
RECURSIVE jokes_of(_)
jokes_of(lines) ==
  IF lines = <<>> THEN <<>>
  ELSE LET j == Strip(Head(lines))
       IN  IF j # "" /\ ~starts_with_hash(j) THEN <<j>> \o jokes_of(Tail(lines))
           ELSE jokes_of(Tail(lines))

\* int(hashlib.sha1(day.encode("utf-8")).hexdigest(), 16) modulo 840, for the
\* dates of the model (the values of the real digests); 840 is a multiple of
\* every corpus size up to 8, so (x % 840) % n = x % n for the sizes of the
\* model
sha1_int_mod840(day) ==
  CASE day = "2024-01-04" -> 620
    [] day = "2024-01-05" -> 815
    [] day = "2024-01-06" -> 372

\* the index if the time of day were hashed along with the date
joke_index_with_hour(now, n) == (sha1_int_mod840(Days[now.day]) + now.hour) % n

\* day = now.strftime("%Y-%m-%d"); idx = int(sha1(day)...) % len(jokes)
joke_index(now, n) == sha1_int_mod840(Days[now.day]) % n

jkInit ==
  /\ jokes_file \in JokeFiles
  /\ clock = [day |-> 1, hour |-> 0]
  /\ joke = NoJoke /\ joke_calls = {}

\* time passes: a later hour of the day, or the next day
Tick ==
  /\ \/ /\ clock.hour + 1 \in Hours
        /\ clock' = [clock EXCEPT !.hour = @ + 1]
     \/ /\ clock.day < Len(Days)
        /\ clock' = [day |-> clock.day + 1, hour |-> 0]
  /\ UNCHANGED <<jokes_file, joke, joke_calls>>
  /\ UNCHANGED jkOther

\* def build_joke(): what it returns for the file at JOKES_PATH at time now;
\* NoJoke stands for None
build_joke(file, now) ==
  LET jokes == IF file = NoFile THEN <<>> ELSE jokes_of(file)
  IN  IF jokes = <<>> THEN NoJoke
      ELSE [date_utc |-> Days[now.day],
            text |-> jokes[joke_index(now, Len(jokes)) + 1]]

\* build_joke() is called at time clock
BuildJoke ==
  /\ LET jokes == IF jokes_file = NoFile THEN <<>> ELSE jokes_of(jokes_file)
         idx == joke_index(clock, Len(jokes))
     IN  IF jokes = <<>>
           THEN /\ joke' = build_joke(jokes_file, clock)
                /\ UNCHANGED joke_calls
           ELSE /\ joke' = build_joke(jokes_file, clock)
                /\ joke_calls' = joke_calls \cup
                     {[day |-> clock.day, hour |-> clock.hour, idx |-> idx,
                       text |-> jokes[idx + 1]]}
  /\ UNCHANGED <<jokes_file, clock>>
  /\ UNCHANGED jkOther

jkNext ==
  \/ Tick
  \/ BuildJoke

\* ------------------------------------------------------------------------
\* Properties of build_photos
\* ------------------------------------------------------------------------

\* the slot is the placeholder of its category
IsPlaceholder(slot) ==
  \E i \in DOMAIN categories : slot = placeholder(categories[i])

\* C7 (as claimed): no two photo slots carry the same image URL, also when
\* categories find no usable image.
C7_Claim ==
  \A i, j \in DOMAIN photos : i # j => photos[i].image_url # photos[j].image_url

\* C7 (amended): no two slots picked from a feed carry the same image URL, and
\* an image assigned to an earlier category is never assigned to a later one:
\* the image of a picked slot is none of the images used when it was picked
\* (used_images holds the images of the picked slots before it).
C7_PickedImagesDistinct ==
  /\ \A i, j \in DOMAIN photos :
       (i # j /\ ~IsPlaceholder(photos[i]) /\ ~IsPlaceholder(photos[j]))
         => photos[i].image_url # photos[j].image_url
  /\ (ph_pc = "sources" /\ picked # None) => picked.image_url \notin used_images

\* C7 witness: build_photos has returned two picked photos, and the later
\* category met an entry whose image the earlier one had taken.
C7_Witness ==
  /\ ph_pc = "done"
  /\ \E i, j \in DOMAIN photos :
       /\ i < j /\ ~IsPlaceholder(photos[i]) /\ ~IsPlaceholder(photos[j])
       /\ ph_hist[j].skipped_used

\* C8: build_photos returns exactly three slots, one per category in the order
\* space, animals, landscapes; the slot of a category is the placeholder
\* exactly when no source of the category gave an entry with a link and an
\* image not used before; a category that fails leaves nothing behind for the
\* others (used_images holds the images of the picked slots and nothing else).
C8_ThreeSlotsWithPlaceholders ==
  /\ used_images =
       {photos[i].image_url : i \in {k \in DOMAIN photos : ~IsPlaceholder(photos[k])}}
  /\ \A i \in DOMAIN photos :
       /\ photos[i].category_id = categories[i].id
       /\ (photos[i] = placeholder(categories[i])) <=> ~ph_hist[i].usable
  /\ ph_pc = "done" => Len(photos) = 3

\* C8 witness: build_photos has returned with a placeholder between two picked
\* photos, for a category whose only entry with an image had an image used
\* already.
C8_Witness ==
  /\ ph_pc = "done" /\ Len(photos) = 3
  /\ ~IsPlaceholder(photos[1]) /\ IsPlaceholder(photos[2]) /\ ~IsPlaceholder(photos[3])
  /\ ph_hist[2].skipped_used

\* ------------------------------------------------------------------------
\* Properties of build_satire
\* ------------------------------------------------------------------------

\* C9 (as claimed): with at least one candidate the picker never returns an
\* empty result; a candidate returned from the probe loop is the first probed
\* one that is not paywalled by final URL pattern or body marker (every probe
\* before it failed or met a paywall); the fallback to the first candidate is
\* taken only when every probe failed or met a paywall.
C9_Claim ==
  (sa_pc \in {"done", "done_fallback"} /\ satire_enabled /\ candidates # <<>>) =>
    /\ Len(satire) = 1
    /\ sa_pc = "done" =>
         /\ probes # <<>>
         /\ probes[Len(probes)].fetched /\ ~probes[Len(probes)].paywalled
         /\ satire[1].link = probes[Len(probes)].final_url
         /\ \A i \in 1..(Len(probes) - 1) :
              ~probes[i].fetched \/ probes[i].paywalled
    /\ sa_pc = "done_fallback" =>
         /\ \A i \in DOMAIN probes : ~probes[i].fetched \/ probes[i].paywalled
         /\ satire[1].link \in FinalUrls(candidates[1])

\* ------------------------------------------------------------------------
\* Properties of build_joke
\* ------------------------------------------------------------------------

\* the corpus of the run
Corpus == IF jokes_file = NoFile THEN <<>> ELSE jokes_of(jokes_file)

\* C10: for a fixed non-empty corpus every call of build_joke takes index
\* hash(date) mod corpus size: the index is within 0 .. size-1, the joke is the
\* corpus element at it, and two calls on the same UTC date return the same
\* index and joke whatever the time of day.
C10_DailyJokeStable ==
  \A c \in joke_calls :
    /\ c.idx \in 0..(Len(Corpus) - 1)
    /\ c.idx = sha1_int_mod840(Days[c.day]) % Len(Corpus)
    /\ c.text = Corpus[c.idx + 1]
    /\ \A d \in joke_calls : d.day = c.day => (d.idx = c.idx /\ d.text = c.text)

\* C10 witness: with two jokes in the corpus build_joke ran twice on one date,
\* at different hours, and once on another date, where it took the other joke.
C10_Witness ==
  /\ Len(Corpus) >= 2
  /\ \E c, d, e \in joke_calls :
       /\ c.day = d.day /\ c.hour # d.hour
       /\ e.day # c.day /\ e.idx # c.idx

\* ------------------------------------------------------------------------
\* main
\* ------------------------------------------------------------------------

\* what load_yaml returns for the document {}: every cfg.get(...) finds nothing
EmptyCfg ==
  [rss_sources |-> <<>>, sections |-> <<>>, thresholds |-> [s \in {} |-> 0],
   photo_sources |-> [c \in {} |-> <<>>], satire_enabled |-> FALSE]

\* a document with rss_sources only: no sections, no filters
RssOnlyCfg ==
  [rss_sources |-> <<[id |-> "romania", sources |-> <<Source("n1", "u1")>>]>>,
   sections |-> <<>>, thresholds |-> [s \in {} |-> 0],
   photo_sources |-> [c \in {} |-> <<>>], satire_enabled |-> FALSE]

\* a document with every part
FullCfg ==
  [rss_sources |->
     <<[id |-> "romania", sources |-> <<Source("n0", " "), Source("n1", "u1")>>],
       [id |-> "science", sources |-> <<Source("n1", "u1")>>]>>,
   sections |-> <<[id |-> "romania", max_items |-> 1]>>,
   thresholds |-> [s \in {"science"} |-> 1],
   photo_sources |->
     [c \in {"space", "landscapes"} |->
        IF c = "space" THEN <<Source("none", ""), Source("Flickr", "u1")>>
        ELSE <<Source("Flickr", "u1")>>],
   satire_enabled |-> TRUE]

\* what can be at CONFIG_PATH
ConfigFiles == {NoConfigFile, NoneDoc, EmptyCfg, RssOnlyCfg, FullCfg}

\* what can be at JOKES_PATH when main runs
MainJokeFiles == {NoFile, <<"# comentariu", "Gluma 1">>}

\* the parts of cfg that build_sections reads
sections_cfg(c) ==
  [rss_sources |-> c.rss_sources, sections |-> c.sections,
   thresholds |-> c.thresholds]

\* main is started
mnInit ==
  /\ config_file \in ConfigFiles
  /\ mn_pc = "start" /\ mn_cfg = NoneDoc /\ sections = <<>>
  /\ out_file = NotWritten /\ mn_exit = "none"
  /\ jokes_file \in MainJokeFiles /\ clock = [day |-> 1, hour |-> 0]
  /\ joke = NoJoke /\ joke_calls = {}

\* if not os.path.exists(CONFIG_PATH): raise SystemExit
MissingConfig ==
  /\ mn_pc = "start" /\ config_file = NoConfigFile
  /\ mn_exit' = "SystemExit" /\ mn_pc' = "exited"
  /\ UNCHANGED <<config_file, mn_cfg, sections, out_file>>
  /\ UNCHANGED <<bsVars, phVars, saVars, jkVars, ilVars>>

\* cfg = load_yaml(CONFIG_PATH); safe_mkdir(...); build_sections(cfg) is
\* called: cfg.get raises AttributeError when cfg is None, else out = {},
\* seen = set()
LoadConfig ==
  /\ mn_pc = "start" /\ config_file # NoConfigFile
  /\ mn_cfg' = config_file /\ mn_pc' = "build_sections"
  /\ IF config_file = NoneDoc
       THEN /\ pc' = "raised" /\ exc' = "AttributeError"
            /\ UNCHANGED <<cfg, secIdx, srcIdx, feed, ei, items, seen, out>>
       ELSE /\ cfg' = sections_cfg(config_file)
            /\ pc' = "sections" /\ secIdx' = 1 /\ srcIdx' = 0 /\ feed' = <<>>
            /\ ei' = 0 /\ items' = <<>> /\ seen' = {} /\ out' = <<>>
            /\ exc' = "none"
  /\ UNCHANGED <<config_file, sections, out_file, mn_exit>>
  /\ UNCHANGED <<phVars, saVars, jkVars, ilVars>>

\* build_sections raised: nothing in main catches it
SectionsRaised ==
  /\ mn_pc = "build_sections" /\ pc = "raised"
  /\ mn_exit' = exc /\ mn_pc' = "exited"
  /\ UNCHANGED <<config_file, mn_cfg, sections, out_file>>
  /\ UNCHANGED <<bsVars, phVars, saVars, jkVars, ilVars>>

\* sections = build_sections(cfg) returned; build_photos(cfg) is called
SectionsReturned ==
  /\ mn_pc = "build_sections" /\ pc = "done"
  /\ sections' = out /\ mn_pc' = "build_photos"
  /\ cfg' = NoConfig /\ pc' = "idle" /\ secIdx' = 0 /\ srcIdx' = 0
  /\ feed' = <<>> /\ ei' = 0 /\ items' = <<>> /\ seen' = {} /\ out' = <<>>
  /\ exc' = "none"
  /\ photo_sources' = mn_cfg.photo_sources
  /\ ph_pc' = "category" /\ catIdx' = 1 /\ psrcIdx' = 0
  /\ pfeed' = <<>> /\ pei' = 0 /\ picked' = None /\ used_images' = {}
  /\ photos' = <<>> /\ ph_hist' = [i \in 1..3 |-> NoHist]
  /\ UNCHANGED <<config_file, mn_cfg, out_file, mn_exit>>
  /\ UNCHANGED <<saVars, jkVars, ilVars>>

\* sections["photos"] = build_photos(cfg)
PhotosReturned ==
  /\ mn_pc = "build_photos" /\ ph_pc = "done"
  /\ sections' = SetOut(sections, "photos", photos) /\ mn_pc' = "build_joke"
  /\ photo_sources' = <<>> /\ ph_pc' = "idle" /\ catIdx' = 0 /\ psrcIdx' = 0
  /\ pfeed' = <<>> /\ pei' = 0 /\ picked' = None /\ used_images' = {}
  /\ photos' = <<>> /\ ph_hist' = <<>>
  /\ UNCHANGED <<config_file, mn_cfg, out_file, mn_exit>>
  /\ UNCHANGED <<bsVars, saVars, jkVars, ilVars>>

\* joke = build_joke(); sections["joke"] = [joke] if joke else [];
\* build_satire(cfg) is called
JokeReturned ==
  /\ mn_pc = "build_joke"
  /\ joke' = build_joke(jokes_file, clock)
  /\ sections' = SetOut(sections, "joke",
                        IF joke' = NoJoke THEN <<>> ELSE <<joke'>>)
  /\ mn_pc' = "build_satire"
  /\ satire_enabled' = mn_cfg.satire_enabled /\ sa_pc' = "start"
  /\ UNCHANGED <<luIdx, candidates, sa_seen, probeIdx, picked_link,
                 picked_title, picked_summary, satire, probes>>
  /\ UNCHANGED <<config_file, mn_cfg, out_file, mn_exit>>
  /\ UNCHANGED <<jokes_file, clock, joke_calls>>
  /\ UNCHANGED <<bsVars, phVars, ilVars>>

\* sections["satire"] = build_satire(cfg); flat_items = flatten_items(sections);
\* json.dump(payload) to OUT_PATH
WriteOutput ==
  /\ mn_pc = "build_satire" /\ sa_pc \in {"done", "done_fallback"}
  /\ LET s == SetOut(sections, "satire", satire)
         flat_items == flatten_items(s)
     IN  /\ sections' = s
         /\ out_file' = [generated_utc |-> Days[clock.day],
                         count |-> Len(flat_items), items |-> flat_items,
                         sections |-> s]
  /\ mn_pc' = "written"
  /\ satire_enabled' = FALSE /\ sa_pc' = "idle" /\ luIdx' = 0
  /\ candidates' = <<>> /\ sa_seen' = {} /\ probeIdx' = 0 /\ picked_link' = ""
  /\ picked_title' = "" /\ picked_summary' = "" /\ satire' = <<>>
  /\ probes' = <<>>
  /\ UNCHANGED <<config_file, mn_cfg, mn_exit>>
  /\ UNCHANGED <<bsVars, phVars, jkVars, ilVars>>

\* ------------------------------------------------------------------------
\* Properties of main
\* ------------------------------------------------------------------------

\* no configuration at all: the file is missing, or the document is empty, or
\* it has no feed sections, no section settings and no filter rules
NoConfiguration ==
  \/ config_file = NoConfigFile
  \/ config_file = NoneDoc
  \/ /\ config_file.rss_sources = <<>>
     /\ config_file.sections = <<>>
     /\ DOMAIN config_file.thresholds = {}

\* C12: when no configuration is available at all, main never reaches the
\* write of the output file.
C12_Claim == NoConfiguration => out_file = NotWritten

\* a missing config file ends main with SystemExit before anything is written
MissingConfigAborts ==
  config_file = NoConfigFile => out_file = NotWritten /\ mn_exit \in {"none", "SystemExit"}

\* main wrote the output for a configuration with every part
MainWroteFull ==
  mn_pc = "written" /\ config_file = FullCfg /\ Len(out_file.sections["photos"]) = 3

\* ------------------------------------------------------------------------
\* interleave_lists, pass by pass
\* ------------------------------------------------------------------------

\* longest list a, longest list b and largest limit of a call
MaxA == 4
MaxB == 3
MaxLimit == 6

\* a list of n distinct items of one kind, as flatten_items passes them
ItemList(kind, n) == [k \in 1..n |-> [kind |-> kind, n |-> k]]

\* interleave_lists(a, b, pattern=(2, 1), limit) is called: out = [], i = j = 0
ilInit ==
  /\ \E na \in 0..MaxA : il_a = ItemList("ro", na)
  /\ \E nb \in 0..MaxB : il_b = ItemList("global", nb)
  /\ il_limit \in 0..MaxLimit
  /\ il_st = [out |-> <<>>, i |-> 0, j |-> 0]
  /\ il_pc = "loop" /\ il_rounds = 0

\* one pass of the outer while
InterleaveRound ==
  /\ il_pc = "loop" /\ interleave_more(il_a, il_b, il_st, il_limit)
  /\ il_st' = interleave_round(il_a, il_b, il_st, il_limit)
  /\ il_rounds' = il_rounds + 1
  /\ UNCHANGED <<il_a, il_b, il_limit, il_pc>>
  /\ UNCHANGED ilOther

\* the condition of the while is false: return out
InterleaveReturn ==
  /\ il_pc = "loop" /\ ~interleave_more(il_a, il_b, il_st, il_limit)
  /\ il_pc' = "done"
  /\ UNCHANGED <<il_a, il_b, il_limit, il_st, il_rounds>>
  /\ UNCHANGED ilOther

\* ------------------------------------------------------------------------
\* Properties of interleave_lists
\* ------------------------------------------------------------------------

Min(x, y) == IF x <= y THEN x ELSE y

from_a(x) == x.kind = "ro"

\* the elements of a among the first k elements of o
taken_a(o, k) == Cardinality({m \in 1..k : from_a(o[m])})

\* the returned list has min(limit, len(a) + len(b)) elements
C13_Length ==
  Len(il_st.out) = Min(il_limit, Len(il_a) + Len(il_b))

\* every element comes from a or b and is taken at most once
C13_FromInputsOnce ==
  /\ \A k \in 1..Len(il_st.out) :
       \/ \E m \in 1..Len(il_a) : il_st.out[k] = il_a[m]
       \/ \E m \in 1..Len(il_b) : il_st.out[k] = il_b[m]
  /\ \A k, m \in 1..Len(il_st.out) : k # m => il_st.out[k] # il_st.out[m]

\* the elements of a keep their relative order, and so do the elements of b
C13_OrderKept ==
  \A k, m \in 1..Len(il_st.out) :
    (k < m /\ il_st.out[k].kind = il_st.out[m].kind)
      => il_st.out[k].n < il_st.out[m].n

\* while both lists still have elements: two from a, then one from b, per
\* round; once one list is exhausted the rest comes from the other
C13_Pattern ==
  \A k \in 1..Len(il_st.out) :
    LET na == taken_a(il_st.out, k - 1)
        nb == (k - 1) - na
    IN  IF na < Len(il_a) /\ nb < Len(il_b)
          THEN from_a(il_st.out[k]) <=> ((k - 1) % 3 < 2)
          ELSE IF na >= Len(il_a) THEN ~from_a(il_st.out[k])
          ELSE from_a(il_st.out[k])

\* C13: for any two lists a and b and pattern (2,1), interleave_lists
\* terminates, and the list it returns has min(limit, len(a)+len(b)) elements,
\* each from a or b and taken at most once, with the order of a and the order
\* of b kept, two from a then one from b per round while both lists have
\* elements, and the rest from the other list once one is exhausted.
C13_Interleave ==
  /\ <>(il_pc = "done")
  /\ [](il_pc = "done" =>
          C13_Length /\ C13_FromInputsOnce /\ C13_OrderKept /\ C13_Pattern)

\* a call that took two passes: two from a, one from b, then the last of a and
\* the rest of b
C13_Witness ==
  /\ il_pc = "done" /\ il_rounds = 2
  /\ Len(il_a) = 3 /\ Len(il_b) = 3 /\ il_limit = 6
  /\ il_st.out = <<il_a[1], il_a[2], il_b[1], il_a[3], il_b[2], il_b[3]>>

\* the passes of the model add up to the function main uses
InterleaveAgrees ==
  il_pc = "done" => il_st.out = interleave_lists(il_a, il_b, il_limit)

Init == bsInit /\ phIdle /\ saIdle /\ jkIdle /\ mnIdle /\ ilIdle

Next == bsNext

Spec == Init /\ [][Next]_vars

InitPhotos == phInit /\ bsIdle /\ saIdle /\ jkIdle /\ mnIdle /\ ilIdle

NextPhotos == phNext

SpecPhotos == InitPhotos /\ [][NextPhotos]_vars

InitSatire == saInit /\ bsIdle /\ phIdle /\ jkIdle /\ mnIdle /\ ilIdle

NextSatire == saNext

SpecSatire == InitSatire /\ [][NextSatire]_vars

InitJoke == jkInit /\ bsIdle /\ phIdle /\ saIdle /\ mnIdle /\ ilIdle

NextJoke == jkNext

SpecJoke == InitJoke /\ [][NextJoke]_vars

InitMain == mnInit /\ bsIdle /\ phIdle /\ saIdle /\ ilIdle

NextMain ==
  \/ MissingConfig
  \/ LoadConfig
  \/ SectionsRaised
  \/ SectionsReturned
  \/ PhotosReturned
  \/ JokeReturned
  \/ WriteOutput
  \/ StartSection
  \/ Return
  \/ SkipSource
  \/ FetchSource
  \/ ProcessEntry
  \/ EndFeed
  \/ FinishSection
  \/ StartCategory
  \/ ReturnPhotos
  \/ SkipPhotoSource
  \/ FetchPhotoSource
  \/ ProcessPhotoEntry
  \/ EndPhotoFeed
  \/ FinishCategory
  \/ SatireDisabled
  \/ SatireStart
  \/ ListingFailed
  \/ ListingRead
  \/ NoCandidates
  \/ Shuffle
  \/ Probe
  \/ Fallback
  \/ ReturnSatire

SpecMain == InitMain /\ [][NextMain]_vars

InitInterleave == ilInit /\ bsIdle /\ phIdle /\ saIdle /\ jkIdle /\ mnIdle

NextInterleave ==
  \/ InterleaveRound
  \/ InterleaveReturn

\* a call that is running takes its next step
SpecInterleave ==
  InitInterleave /\ [][NextInterleave]_vars /\ WF_vars(NextInterleave)

====
